---- MODULE Spec2Model ----
(***************************************************************************)
(* PyBS: a cluster of daemons (PyBS/pybsdaemon.py) that dispatch jobs from *)
(* one shared job table (PyBS/db).  Each daemon is a single-threaded       *)
(* asyncio loop: a dispatcher task, RPC handlers and one supervisor task   *)
(* per started job.  Daemons run in parallel and meet only in the          *)
(* database.                                                               *)
(***************************************************************************)
EXTENDS Integers, Sequences, FiniteSets, TLC

\* ---------------------------------------------------------------- bounds
MaxJobs == 2        \* rows ever inserted
MaxSups == 2        \* supervisor tasks ever launched
MaxTime == 2        \* readings of the wall clock
MaxHostLen == 3     \* characters of a node name (affinity matcher)
MaxListLen == 4     \* characters of a nodes list (affinity matcher)
MaxLines == 2       \* #PBS lines of a submitted script
MaxFaults == 2      \* database errors met by one dispatcher

\* ------------------------------------------------------- program constants
DefaultNcpus == 4   \* PyBSdaemon.__init__(ncpus=4)

\* ---------------------------------------------------------------- strings
\* A string is a sequence of one-character strings.  Null is SQL NULL /
\* Python None for a string column; NoTime is NULL for a DateTime column.
Null == <<"NULL">>
NoTime == -1

RECURSIVE LikeMatch(_, _)
\* SQL LIKE: % matches any run of characters, _ matches exactly one.
LikeMatch(s, p) ==
    IF p = <<>> THEN s = <<>>
    ELSE IF Head(p) = "%"
         THEN LikeMatch(s, Tail(p)) \/ (s # <<>> /\ LikeMatch(Tail(s), p))
         ELSE /\ s # <<>>
              /\ (Head(p) = "_" \/ Head(p) = Head(s))
              /\ LikeMatch(Tail(s), Tail(p))

\* Job.nodes.like(pattern); a comparison with NULL is not true.
Like(s, p) == s # Null /\ LikeMatch(s, p)

\* The affinity filter of _start_job: or_(nodes == None, nodes == host,
\* nodes LIKE 'host,%', nodes LIKE '%,host,%', nodes LIKE '%,host').
NodesMatch(host, nodes) ==
    \/ nodes = Null
    \/ nodes = host
    \/ Like(nodes, host \o <<",", "%">>)
    \/ Like(nodes, <<"%", ",">> \o host \o <<",", "%">>)
    \/ Like(nodes, <<"%", ",">> \o host)

RECURSIVE SplitAcc(_, _)
SplitAcc(s, cur) ==
    IF s = <<>> THEN {cur}
    ELSE IF Head(s) = "," THEN {cur} \cup SplitAcc(Tail(s), <<>>)
         ELSE SplitAcc(Tail(s), Append(cur, Head(s)))

\* The members of a comma-separated list (the set of L.split(',')).
Members(L) == SplitAcc(L, <<>>)

RECURSIVE SeqsUpTo(_, _)
SeqsUpTo(A, n) ==
    IF n = 0 THEN {<<>>}
    ELSE LET shorter == SeqsUpTo(A, n - 1)
         IN  shorter \cup {Append(s, a) : s \in shorter, a \in A}

\* ------------------------------------------------------------------ state
Daemons == {"d1", "d2"}
NoDaemon == "none"

\* nodename of each daemon (PyBSdaemon.__init__, self._hostname)
Hostname(d) == IF d = "d1" THEN <<"n", "1">> ELSE <<"n", "1", "0">>

\* Notifiers handed to the constructor; both default to None.
MailerOf(d) == IF d = "d1" THEN "Mailer" ELSE "None"
SlackOf(d) == IF d = "d1" THEN "None" ELSE "Slack"

JobIds == 1 .. MaxJobs

\* header['send_mail'] absent
NoMail == {"-"}

VARIABLES
    rows,           \* table job: id -> row, for the ids present
    files,          \* the script file of each job: its parsed PBS header
    nextId,         \* next value of the autoincrement primary key
    now,            \* datetime.datetime.now()
    ncpus,          \* self._ncpus of each daemon
    usedCpus,       \* self._used_cpus of each daemon
    disp,           \* where each daemon's _main_loop task is
    cancelPending,  \* _task.cancel() requested and not yet delivered
    txn,            \* the open transaction of the code a daemon is inside
    sups,           \* the _run_job tasks launched so far, in launch order
    procs,          \* self._processes of each daemon: job id -> task
    claimedBy,      \* history: the daemons whose dispatcher claimed a job
    startCommits,   \* history: commits that stamped started on a row read WAITING
    removedVia,     \* history: the daemon whose remove() deleted the row
    liveAtRemove,   \* history: tasks registered with a live child at that remove()
    closed,         \* history: close() was called
    tickedAfterClose, \* history: the dispatcher ran a tick after close()
    lost,           \* history: jobs a tick found already claimed by another daemon
    tickErrors,     \* history: the candidate of each tick that met a database error
    probe,          \* inputs and result of the affinity matcher under test
    rpc,            \* the connection under observation: its request and reply
    listed          \* the result of the last list_* call

dbVars == <<rows, files, nextId, now>>
daemonVars == <<ncpus, usedCpus, disp, cancelPending, txn>>
taskVars == <<sups, procs>>
ioVars == <<rpc, listed>>
histVars == <<claimedBy, startCommits, removedVia, liveAtRemove, closed,
              tickedAfterClose, lost, tickErrors>>
vars == <<dbVars, daemonVars, taskVars, histVars, probe, ioVars>>

NoTxn == [kind |-> "none", job |-> 0, waiting |-> FALSE]
NoProbe == [host |-> <<>>, nodes |-> Null, result |-> FALSE, done |-> FALSE]
NoProcs == [j \in {} |-> 0]
NoScript == [exists |-> FALSE, lines |-> <<>>]
NoValue == [json |-> "null", text |-> "", frac |-> ""]
NoArg == [job |-> 0, script |-> NoScript, key |-> "", value |-> NoValue]
NoRpc == [d |-> NoDaemon, id |-> 0, method |-> "", arg |-> NoArg, phase |-> "none",
          reply |-> "none", replyId |-> 0]
NoList == [view |-> "none", limit |-> 0, ids |-> {}, call |-> 0]

\* State of a row, derived from its timestamps.
Waiting(r) == r.started = NoTime /\ r.finished = NoTime
Running(r) == r.started # NoTime /\ r.finished = NoTime
Finished(r) == r.started # NoTime /\ r.finished # NoTime

Init ==
    /\ rows = [j \in {} |-> 0]
    /\ files = [j \in {} |-> 0]
    /\ nextId = 1
    /\ now = 0
    /\ ncpus = [d \in Daemons |-> DefaultNcpus]
    /\ usedCpus = [d \in Daemons |-> 0]
    /\ disp = [d \in Daemons |-> "warmup"]
    /\ cancelPending = [d \in Daemons |-> FALSE]
    /\ txn = [d \in Daemons |-> NoTxn]
    /\ sups = <<>>
    /\ procs = [d \in Daemons |-> NoProcs]
    /\ claimedBy = [j \in JobIds |-> {}]
    /\ startCommits = [j \in JobIds |-> 0]
    /\ removedVia = [j \in JobIds |-> NoDaemon]
    /\ liveAtRemove = [j \in JobIds |-> {}]
    /\ closed = [d \in Daemons |-> FALSE]
    /\ tickedAfterClose = [d \in Daemons |-> FALSE]
    /\ lost = [d \in Daemons |-> {}]
    /\ probe = NoProbe
    /\ rpc = NoRpc
    /\ listed = NoList
    /\ tickErrors = [d \in Daemons |-> <<>>]

\* A daemon is one thread: while it is inside a synchronous section that
\* waits on the database, none of its other tasks runs.
Idle(d) == txn[d] = NoTxn

\* The row lock of SELECT ... FOR UPDATE (query.with_for_update()): held by
\* the claim transaction of a daemon until it commits.
LockHolders(j) == {d \in Daemons : txn[d].kind = "claim" /\ txn[d].job = j}

\* The query without with_for_update(): no lock is waited for.
RowLockFree_NoForUpdate(j, d) == TRUE

RowLockFree(j, d) == LockHolders(j) \subseteq {d}

\* ------------------------------------------------------------ the RPC server
\* hasattr(self._handler, rpc['method']) for the methods a client calls
Methods == {"submit", "remove", "run", "list_waiting", "list_running",
            "list_finished", "get_cpus", "config", "setconfig"}

RpcIds == {1, 2}

\* handle_request after method(**params): a result envelope when the method
\* returns, an error envelope with code -32603 when it raises ValueError, and
\* no envelope at all when it raises anything else (the exception leaves
\* handle_request before _send is reached).
Envelope(out) ==
    IF out = "return" THEN "result"
    ELSE IF out = "ValueError" THEN "e32603"
    ELSE "none"

\* The connection under observation after daemon d has run method m with
\* outcome out: if the request read from it asked d for m, the envelope is
\* sent with the request's id and _send closes the connection.
Answer(d, m, out) ==
    IF rpc.phase = "received" /\ rpc.d = d /\ rpc.method = m
    THEN [rpc EXCEPT !.phase = IF Envelope(out) = "none" THEN "dropped" ELSE "closed",
                     !.reply = Envelope(out),
                     !.replyId = IF Envelope(out) = "none" THEN 0 ELSE rpc.id]
    ELSE rpc

\* A client connects to daemon d and its request line is read: id, method
\* and params (arg: the script of submit, the job id of remove and run).
JobArg(j) == [NoArg EXCEPT !.job = j]
ScriptArg(f) == [NoArg EXCEPT !.script = f]
ConfigArg(key, value) == [NoArg EXCEPT !.key = key, !.value = value]

Request(d, id, m, arg) ==
    /\ rpc.phase = "none"
    /\ Idle(d)
    /\ rpc' = [d |-> d, id |-> id, method |-> m, arg |-> arg, phase |-> "received",
               reply |-> "none", replyId |-> 0]
    /\ UNCHANGED <<dbVars, daemonVars, taskVars, histVars, probe, listed>>

\* While a request for method m is waiting at daemon d, the call of m that d
\* makes is the one the request asks for.
Addressed(d, m, arg) ==
    IF rpc.phase = "received" /\ rpc.d = d /\ rpc.method = m THEN rpc.arg = arg ELSE TRUE

\* handle_request when the handler has no attribute of the requested name.
UnknownMethod(d) ==
    /\ rpc.phase = "received"
    /\ rpc.d = d
    /\ rpc.method \notin Methods
    /\ Idle(d)
    /\ rpc' = [rpc EXCEPT !.phase = "closed", !.reply = "e32601", !.replyId = rpc.id]
    /\ UNCHANGED <<dbVars, daemonVars, taskVars, histVars, probe, listed>>

\* ---------------------------------------------------------------- the clock
AdvanceClock ==
    /\ now < MaxTime
    /\ now' = now + 1
    /\ UNCHANGED <<rows, files, nextId, daemonVars, taskVars, histVars, probe, ioVars>>

\* ------------------------------------------------------------------ submit
\* submit(filename, user) -> Job.from_file: a WAITING row, committed.
Submit(d, h) ==
    /\ Idle(d)
    /\ nextId <= MaxJobs
    /\ rows' = [j \in DOMAIN rows \cup {nextId} |->
                  IF j = nextId
                  THEN [name |-> h.name, ncpus |-> h.ncpus, priority |-> h.priority,
                        nodes |-> h.nodes, node |-> Null, submitted |-> now,
                        started |-> NoTime, finished |-> NoTime]
                  ELSE rows[j]]
    /\ files' = [j \in DOMAIN files \cup {nextId} |->
                  IF j = nextId THEN h ELSE files[j]]
    /\ nextId' = nextId + 1
    /\ rpc' = Answer(d, "submit", "return")
    /\ UNCHANGED <<now, daemonVars, taskVars, histVars, probe, listed>>

\* A script file: whether it exists, and its "#PBS -<flag> <value>" lines in
\* order.  parts is the value split at '=' (one part when it holds no '=').
PbsLine(flag, parts) == [flag |-> flag, parts |-> parts]

\* The texts int() accepts, and the integer each stands for (int() for the
\* priority, the coercion of the bound text for the INTEGER column ncpus).
IntTexts == {"-2", "0", "1", "3", "5", "6"}
IntOf(t) ==
    CASE t = "-2" -> 0 - 2
      [] t = "0" -> 0
      [] t = "1" -> 1
      [] t = "3" -> 3
      [] t = "5" -> 5
      [] t = "6" -> 6

NoHeader == [k \in {} |-> 0]

\* header[key] = value
Put(h, key, value) == [k \in DOMAIN h \cup {key} |-> IF k = key THEN value ELSE h[k]]

\* The body of the loop of parse_pbs_header for one matching line.
ParseLine(acc, line) ==
    IF acc.err # "none" THEN acc
    ELSE IF line.flag = "N" THEN [acc EXCEPT !.header = Put(@, "name", line.parts[1])]
    ELSE IF line.flag = "l"
         THEN IF Len(line.parts) < 2 THEN [acc EXCEPT !.err = "IndexError"]
              ELSE [acc EXCEPT !.header = Put(@, line.parts[1], line.parts[2])]
    ELSE IF line.flag = "e" THEN [acc EXCEPT !.header = Put(@, "error", line.parts[1])]
    ELSE IF line.flag = "o" THEN [acc EXCEPT !.header = Put(@, "output", line.parts[1])]
    ELSE IF line.flag = "m" THEN [acc EXCEPT !.header = Put(@, "send_mail", line.parts[1])]
    ELSE IF line.flag = "M" THEN [acc EXCEPT !.header = Put(@, "email", line.parts[1])]
    ELSE IF line.flag = "p"
         THEN IF line.parts[1] \in IntTexts
              THEN [acc EXCEPT !.header = Put(@, "priority", IntOf(line.parts[1]))]
              ELSE [acc EXCEPT !.err = "ValueError"]
    ELSE acc

RECURSIVE ParseLines(_, _)
ParseLines(acc, lines) ==
    IF lines = <<>> THEN acc
    ELSE ParseLines(ParseLine(acc, Head(lines)), Tail(lines))

\* Job.parse_pbs_header
ParsePbsHeader(lines) == ParseLines([err |-> "none", header |-> NoHeader], lines)

\* Job.from_file: the exception it raises ("none" when it returns) and the
\* header it has parsed.
FromFile(f) ==
    IF ~f.exists THEN [err |-> "ValueError", header |-> NoHeader]
    ELSE LET r == ParsePbsHeader(f.lines)
         IN  IF r.err # "none" THEN r
             ELSE IF "name" \notin DOMAIN r.header THEN [r EXCEPT !.err = "ValueError"]
             ELSE IF "ncpus" \notin DOMAIN r.header THEN [r EXCEPT !.err = "ValueError"]
             ELSE r

\* The columns from_file fills, and what _run_job and _send_message later
\* read off the same header.
HeaderRecord(h) ==
    [name |-> h["name"], ncpus |-> IntOf(h["ncpus"]),
     priority |-> IF "priority" \in DOMAIN h THEN h["priority"] ELSE 0,
     nodes |-> IF "nodes" \in DOMAIN h THEN h["nodes"] ELSE Null,
     send_mail |-> IF "send_mail" \in DOMAIN h THEN h["send_mail"] ELSE NoMail,
     email |-> "email" \in DOMAIN h, slack |-> "slack" \in DOMAIN h]

\* submit(filename, user) of any file: the row is inserted and committed when
\* from_file returns; when it raises, nothing has been added to the session
\* and the exception leaves submit.
SubmitFile(d, f) ==
    /\ Addressed(d, "submit", ScriptArg(f))
    /\ LET r == FromFile(f)
       IN  IF r.err = "none"
           THEN Submit(d, HeaderRecord(r.header))
           ELSE /\ Idle(d)
                /\ rpc' = Answer(d, "submit", r.err)
                /\ UNCHANGED <<dbVars, daemonVars, taskVars, histVars, probe, listed>>

\* -------------------------------------------------------------- dispatcher
RECURSIVE SumNcpus(_)
SumNcpus(S) ==
    IF S = {} THEN 0
    ELSE LET j == CHOOSE k \in S : TRUE
         IN  rows[j].ncpus + SumNcpus(S \ {j})

\* _get_used_cpus: sum of ncpus over started, unfinished rows whose nodes
\* column equals this daemon's hostname (0 when there is none).
GetUsedCpus(d) ==
    SumNcpus({j \in DOMAIN rows :
                /\ rows[j].started # NoTime
                /\ rows[j].finished = NoTime
                /\ rows[j].nodes = Hostname(d)})

\* The filter of the query in _start_job.
Candidates(d, available) ==
    {j \in DOMAIN rows :
        /\ rows[j].started = NoTime
        /\ rows[j].finished = NoTime
        /\ rows[j].ncpus <= available
        /\ NodesMatch(Hostname(d), rows[j].nodes)}

\* order_by(Job.submitted.asc()) alone: the priority is forgotten.
SortsBefore_SubmittedOnly(a, b) == rows[a].submitted < rows[b].submitted

\* True when row a sorts strictly before row b under
\* order_by(Job.priority.desc(), Job.submitted.asc()).
SortsBefore(a, b) ==
    \/ rows[a].priority > rows[b].priority
    \/ rows[a].priority = rows[b].priority /\ rows[a].submitted < rows[b].submitted

\* query.first(): any row of the result that no other row sorts before;
\* the database is free to return rows that tie in either order.
First(S) == {j \in S : \A k \in S : ~SortsBefore(k, j)}

\* asyncio.ensure_future(self._run_job(job_id))
Launch(d, j) ==
    Append(sups, [d |-> d, job |-> j, pc |-> "ready", child |-> "none",
                  rc |-> 0, spawnFailed |-> FALSE, notified |-> "none"])

\* _main_loop: await asyncio.sleep(10) before the loop is over.
WarmupDone(d) ==
    /\ disp[d] = "warmup"
    /\ ~cancelPending[d]
    /\ disp' = [disp EXCEPT ![d] = "tick"]
    /\ UNCHANGED <<dbVars, ncpus, usedCpus, cancelPending, txn, taskVars, histVars, probe, ioVars>>

\* _main_loop: await asyncio.sleep(10) after an unsuccessful tick is over.
BackoffDone(d) ==
    /\ disp[d] = "backoff"
    /\ ~cancelPending[d]
    /\ disp' = [disp EXCEPT ![d] = "tick"]
    /\ UNCHANGED <<dbVars, ncpus, usedCpus, cancelPending, txn, taskVars, histVars, probe, ioVars>>

\* One tick, up to the locking query of _start_job: sleep(1) is over, the
\* used CPUs are refreshed, and the query either finds nothing (the tick ends
\* and the loop sleeps 10 s) or returns a row and holds its lock.
Tick(d) ==
    /\ disp[d] = "tick"
    /\ ~cancelPending[d]
    /\ Idle(d)
    /\ LET used == GetUsedCpus(d)
           cands == Candidates(d, ncpus[d] - used)
       IN  /\ usedCpus' = [usedCpus EXCEPT ![d] = used]
           /\ tickedAfterClose' = [tickedAfterClose EXCEPT ![d] = @ \/ closed[d]]
           /\ \/ /\ cands = {}
                 /\ disp' = [disp EXCEPT ![d] = "backoff"]
                 /\ lost' = [lost EXCEPT ![d] =
                               @ \cup {j \in DOMAIN rows : claimedBy[j] \ {d} # {}}]
                 /\ UNCHANGED txn
              \/ /\ Len(sups) < MaxSups
                 /\ \E j \in First(cands) :
                       /\ RowLockFree(j, d)
                       /\ txn' = [txn EXCEPT ![d] =
                                    [kind |-> "claim", job |-> j, waiting |-> TRUE]]
                 /\ UNCHANGED <<disp, lost>>
    /\ UNCHANGED <<dbVars, ncpus, cancelPending, taskVars, claimedBy, startCommits,
                   removedVia, liveAtRemove, closed, tickErrors, probe, ioVars>>

\* The rest of _start_job: stamp started, write the hostname, commit (the
\* lock is released) and launch the supervisor.
StartJobCommit(d) ==
    /\ txn[d].kind = "claim"
    /\ Len(sups) < MaxSups
    /\ LET j == txn[d].job
       IN  /\ rows' = [rows EXCEPT ![j].started = now, ![j].nodes = Hostname(d)]
           /\ sups' = Launch(d, j)
           /\ claimedBy' = [claimedBy EXCEPT ![j] = @ \cup {d}]
           /\ startCommits' = [startCommits EXCEPT ![j] = @ + 1]
    /\ txn' = [txn EXCEPT ![d] = NoTxn]
    /\ UNCHANGED <<files, nextId, now, ncpus, usedCpus, disp, cancelPending, procs,
                   removedVia, liveAtRemove, closed, tickedAfterClose, lost, tickErrors, probe, ioVars>>

\* An exception that leaves the tick is not caught and ends the task.
AfterTickError_Propagates(at) == "stopped"

\* Where _main_loop goes on after an exception in the tick: "except:" catches
\* it, logs it, and the while loop starts over with sleep(1).
AfterTickError(at) == "tick"

\* A tick in which a query raises (the database is unreachable, the wait for
\* a row lock times out): either _get_used_cpus raises, or it returns and
\* the query of _start_job raises.  No lock is held afterwards and nothing
\* was written.  0 stands for "no candidate yet".
TickQueryFails(d) ==
    /\ disp[d] = "tick"
    /\ ~cancelPending[d]
    /\ Idle(d)
    /\ Len(tickErrors[d]) < MaxFaults
    /\ \/ UNCHANGED usedCpus
       \/ usedCpus' = [usedCpus EXCEPT ![d] = GetUsedCpus(d)]
    /\ tickedAfterClose' = [tickedAfterClose EXCEPT ![d] = @ \/ closed[d]]
    /\ tickErrors' = [tickErrors EXCEPT ![d] = Append(@, 0)]
    /\ disp' = [disp EXCEPT ![d] = AfterTickError(disp[d])]
    /\ UNCHANGED <<dbVars, ncpus, cancelPending, txn, taskVars, claimedBy, startCommits,
                   removedVia, liveAtRemove, closed, lost, probe, ioVars>>

\* _start_job when the flush or the commit of the claim raises: the
\* transaction is rolled back (the lock is released, the row is as it was),
\* the code after the with block is not reached, and the exception ends in
\* the except of _main_loop, which logs it and goes on with the next tick.
StartJobCommitFails(d) ==
    /\ txn[d].kind = "claim"
    /\ Len(tickErrors[d]) < MaxFaults
    /\ txn' = [txn EXCEPT ![d] = NoTxn]
    /\ tickErrors' = [tickErrors EXCEPT ![d] = Append(@, txn[d].job)]
    /\ disp' = [disp EXCEPT ![d] = AfterTickError(disp[d])]
    /\ UNCHANGED <<dbVars, ncpus, usedCpus, cancelPending, taskVars, claimedBy,
                   startCommits, removedVia, liveAtRemove, closed, tickedAfterClose,
                   lost, probe, ioVars>>

\* close(): self._task.cancel()
Close(d) ==
    /\ Idle(d)
    /\ ~closed[d]
    /\ disp[d] # "stopped"
    /\ cancelPending' = [cancelPending EXCEPT ![d] = TRUE]
    /\ closed' = [closed EXCEPT ![d] = TRUE]
    /\ UNCHANGED <<dbVars, ncpus, usedCpus, disp, txn, taskVars, claimedBy,
                   startCommits, removedVia, liveAtRemove, tickedAfterClose, lost, tickErrors, probe, ioVars>>

\* Where the CancelledError thrown into _main_loop ends up: the warm-up sleep
\* is outside the try, so the task ends; the sleeps inside the loop are
\* inside "try: ... except:", which catches it, logs and loops.
AfterCancel(at) == IF at = "warmup" THEN "stopped" ELSE "tick"

CancelDelivered(d) ==
    /\ cancelPending[d]
    /\ Idle(d)
    /\ disp' = [disp EXCEPT ![d] = AfterCancel(disp[d])]
    /\ cancelPending' = [cancelPending EXCEPT ![d] = FALSE]
    /\ UNCHANGED <<dbVars, ncpus, usedCpus, txn, taskVars, histVars, probe, ioVars>>

\* -------------------------------------------------------------- supervisor
\* What the notification of the finish path does inside the finishing
\* transaction: "ok" (nothing to send, or sent) or "raise".
\*   - 'send_mail' not in header: _send_message is not called;
\*   - return_code was never bound (the spawn raised): evaluating the call's
\*     arguments raises UnboundLocalError;
\*   - the mode does not ask for a message for this return code: return;
\*   - 'email' in header: self._mailer.send(to=, subject=, body=) raises
\*     AttributeError on None and TypeError on a Mailer, whose send takes
\*     (header, job, return_code, outs, errs);
\*   - 'slack' in header: self._slack.send(...) raises AttributeError on
\*     None; a Slack notifier sends or fails.
SlackSend(d) == IF SlackOf(d) = "None" THEN {"raise"} ELSE {"ok", "raise"}

NotifyOutcomes(d, h, rcBound, rc) ==
    IF h.send_mail = NoMail THEN {"ok"}
    ELSE IF ~rcBound THEN {"raise"}
    ELSE IF ("e" \notin h.send_mail /\ rc = 0) \/ ("a" \notin h.send_mail /\ rc # 0)
         THEN {"ok"}
    ELSE IF h.email THEN {"raise"}
    ELSE IF h.slack THEN SlackSend(d)
    ELSE {"ok"}

\* _send_message with the two letters of the mode test exchanged.
NotifierCalled_LettersSwapped(h, rcBound, rc) ==
    IF h.send_mail = NoMail \/ ~rcBound THEN "none"
    ELSE IF ("a" \notin h.send_mail /\ rc = 0) \/ ("e" \notin h.send_mail /\ rc # 0)
         THEN "none"
    ELSE IF h.email THEN "email"
    ELSE IF h.slack THEN "slack"
    ELSE "none"

\* The notifier whose send is called by the finish path: "email" for
\* self._mailer.send, "slack" for self._slack.send, "none" when no send is
\* reached (no 'send_mail', return_code unbound, the mode test returns, or
\* the header has neither 'email' nor 'slack').
NotifierCalled(h, rcBound, rc) ==
    IF h.send_mail = NoMail \/ ~rcBound THEN "none"
    ELSE IF ("e" \notin h.send_mail /\ rc = 0) \/ ("a" \notin h.send_mail /\ rc # 0)
         THEN "none"
    ELSE IF h.email THEN "email"
    ELSE IF h.slack THEN "slack"
    ELSE "none"

\* The transaction of the finally block: stamp finished and notify; an
\* exception inside the with block rolls the stamp back (Database.__call__).
FinishTxn(d, j, rcBound, rc) ==
    IF j \notin DOMAIN rows
    THEN UNCHANGED rows
    ELSE /\ LockHolders(j) = {}
         /\ \E out \in NotifyOutcomes(d, files[j], rcBound, rc) :
               rows' = IF out = "ok" THEN [rows EXCEPT ![j].finished = now] ELSE rows

\* The finally block of _run_job: drop the registry entry of this job id,
\* then the finishing transaction.
Finally(i, rcBound) ==
    LET d == sups[i].d
        j == sups[i].job
    IN  /\ procs' = [procs EXCEPT ![d] = [k \in DOMAIN procs[d] \ {j} |-> procs[d][k]]]
        /\ FinishTxn(d, j, rcBound, sups[i].rc)

\* _run_job from its start to its first suspension: read the row, parse the
\* header, spawn.  A spawn that raises goes straight to the finally block.
SupStart(i) ==
    /\ i \in 1 .. Len(sups)
    /\ sups[i].pc = "ready"
    /\ Idle(sups[i].d)
    /\ sups[i].job \in DOMAIN rows
    /\ \/ /\ sups' = [sups EXCEPT ![i].pc = "spawning", ![i].child = "alive"]
          /\ UNCHANGED <<rows, procs>>
       \/ /\ sups' = [sups EXCEPT ![i].pc = "done", ![i].spawnFailed = TRUE]
          /\ Finally(i, FALSE)
    /\ UNCHANGED <<files, nextId, now, daemonVars, histVars, probe, ioVars>>

\* _run_job without "if job is None: return": the script is spawned although
\* the row is gone.
SupStartGone_NoReturn(i) ==
    /\ i \in 1 .. Len(sups)
    /\ sups[i].pc = "ready"
    /\ Idle(sups[i].d)
    /\ sups[i].job \notin DOMAIN rows
    /\ sups' = [sups EXCEPT ![i].pc = "spawning", ![i].child = "alive"]
    /\ UNCHANGED <<dbVars, procs, daemonVars, histVars, probe, ioVars>>

\* _run_job when the row is gone: "return" inside the try, then the finally
\* block.
SupStartGone(i) ==
    /\ i \in 1 .. Len(sups)
    /\ sups[i].pc = "ready"
    /\ Idle(sups[i].d)
    /\ sups[i].job \notin DOMAIN rows
    /\ sups' = [sups EXCEPT ![i].pc = "done"]
    /\ Finally(i, FALSE)
    /\ UNCHANGED <<files, nextId, now, daemonVars, histVars, probe, ioVars>>

\* create_subprocess_shell returns: self._processes[job_id] = proc, then
\* await proc.communicate().
SupRegister(i) ==
    /\ i \in 1 .. Len(sups)
    /\ sups[i].pc = "spawning"
    /\ Idle(sups[i].d)
    /\ procs' = [procs EXCEPT ![sups[i].d] =
                   [k \in DOMAIN @ \cup {sups[i].job} |->
                      IF k = sups[i].job THEN i ELSE @[k]]]
    /\ sups' = [sups EXCEPT ![i].pc = "waiting"]
    /\ UNCHANGED <<dbVars, daemonVars, histVars, probe, ioVars>>

\* The child process ends by itself with return code rc.
ChildExit(i, rc) ==
    /\ i \in 1 .. Len(sups)
    /\ sups[i].child = "alive"
    /\ sups' = [sups EXCEPT ![i].child = "exited", ![i].rc = rc]
    /\ UNCHANGED <<dbVars, daemonVars, procs, histVars, probe, ioVars>>

\* communicate() returns: the captures are written, then the finally block.
SupFinish(i) ==
    /\ i \in 1 .. Len(sups)
    /\ sups[i].pc = "waiting"
    /\ sups[i].child \in {"exited", "killed"}
    /\ Idle(sups[i].d)
    /\ sups' = [sups EXCEPT ![i].pc = "done",
                            ![i].notified =
                                IF sups[i].job \in DOMAIN rows
                                THEN NotifierCalled(files[sups[i].job], TRUE, sups[i].rc)
                                ELSE "none"]
    /\ Finally(i, TRUE)
    /\ UNCHANGED <<files, nextId, now, daemonVars, histVars, probe, ioVars>>

\* -------------------------------------------------------------------- RPCs
\* proc.kill() on the task registered for the job
Kill(ss, i) ==
    IF ss[i].child = "alive"
    THEN [ss EXCEPT ![i].child = "killed", ![i].rc = -9]
    ELSE ss

\* remove(job_id) of a row that exists: delete and commit, then kill the
\* process this daemon has registered under the id, if any.
Remove(d, j) ==
    /\ Idle(d)
    /\ Addressed(d, "remove", JobArg(j))
    /\ j \in DOMAIN rows
    /\ LockHolders(j) = {}
    /\ rows' = [k \in DOMAIN rows \ {j} |-> rows[k]]
    /\ sups' = IF j \in DOMAIN procs[d] THEN Kill(sups, procs[d][j]) ELSE sups
    /\ removedVia' = [removedVia EXCEPT ![j] = d]
    /\ liveAtRemove' = [liveAtRemove EXCEPT ![j] =
                          {i \in 1 .. Len(sups) :
                              /\ sups[i].job = j
                              /\ sups[i].child = "alive"
                              /\ j \in DOMAIN procs[sups[i].d]
                              /\ procs[sups[i].d][j] = i}]
    /\ rpc' = Answer(d, "remove", "return")
    /\ UNCHANGED <<files, nextId, now, daemonVars, procs, claimedBy, startCommits,
                   closed, tickedAfterClose, lost, tickErrors, probe, listed>>

\* run(job_id) of a row that exists, up to the read: the row is read
\* without a lock and without a look at its state.
RunRead(d, j) ==
    /\ Idle(d)
    /\ Addressed(d, "run", JobArg(j))
    /\ j \in DOMAIN rows
    /\ Len(sups) < MaxSups
    /\ txn' = [txn EXCEPT ![d] =
                 [kind |-> "run", job |-> j, waiting |-> Waiting(rows[j])]]
    /\ UNCHANGED <<dbVars, ncpus, usedCpus, disp, cancelPending, taskVars, histVars, probe, ioVars>>

\* The rest of run(): job.started = now, flush, launch the supervisor,
\* commit.  The UPDATE waits for a row lock; on a row deleted meanwhile it
\* matches nothing, the flush raises (StaleDataError) and nothing is
\* launched.
RunCommit(d) ==
    /\ txn[d].kind = "run"
    /\ LockHolders(txn[d].job) = {}
    /\ LET j == txn[d].job
       IN  \/ /\ j \notin DOMAIN rows
              /\ rpc' = Answer(d, "run", "StaleDataError")
              /\ UNCHANGED <<rows, sups, startCommits>>
           \/ /\ j \in DOMAIN rows
              /\ Len(sups) < MaxSups
              /\ rows' = [rows EXCEPT ![j].started = now]
              /\ sups' = Launch(d, j)
              /\ startCommits' = [startCommits EXCEPT ![j] =
                                    IF txn[d].waiting THEN @ + 1 ELSE @]
              /\ rpc' = Answer(d, "run", "return")
    /\ txn' = [txn EXCEPT ![d] = NoTxn]
    /\ UNCHANGED <<files, nextId, now, ncpus, usedCpus, disp, cancelPending, procs,
                   claimedBy, removedVia, liveAtRemove, closed, tickedAfterClose,
                   lost, tickErrors, probe, listed>>

\* run() when its commit fails (the connection to the database is lost, a
\* deadlock is detected): the flush went through and the supervisor was
\* scheduled inside the with block, then Database.__call__ rolls back and
\* re-raises.  The row keeps the state it had.
RunCommitFails(d) ==
    /\ txn[d].kind = "run"
    /\ LockHolders(txn[d].job) = {}
    /\ txn[d].job \in DOMAIN rows
    /\ Len(sups) < MaxSups
    /\ sups' = Launch(d, txn[d].job)
    /\ txn' = [txn EXCEPT ![d] = NoTxn]
    /\ rpc' = Answer(d, "run", "OperationalError")
    /\ UNCHANGED <<dbVars, ncpus, usedCpus, disp, cancelPending, procs, histVars,
                   probe, listed>>

\* A JSON value of the params: a string, a number (text the digits before
\* the point, frac the digits after it, "" for none) or null.
\* int(value) of Python: a string must be an integer literal (ValueError
\* otherwise), a number is truncated towards zero, None raises TypeError.
PyInt(v) ==
    IF v.json = "string"
    THEN IF v.text \in IntTexts /\ v.frac = ""
         THEN [out |-> "return", val |-> IntOf(v.text)]
         ELSE [out |-> "ValueError", val |-> 0]
    ELSE IF v.json = "number"
    THEN [out |-> "return", val |-> IntOf(v.text)]
    ELSE [out |-> "TypeError", val |-> 0]

\* config() and get_cpus()
Config(d) == [ncpus |-> ncpus[d]]
GetCpus(d) == <<usedCpus[d], ncpus[d]>>

\* setconfig(key, value)
SetConfig(d, key, value) ==
    /\ Idle(d)
    /\ Addressed(d, "setconfig", ConfigArg(key, value))
    /\ IF key = "ncpus"
       THEN IF PyInt(value).out = "return"
            THEN /\ ncpus' = [ncpus EXCEPT ![d] = PyInt(value).val]
                 /\ rpc' = Answer(d, "setconfig", "return")
            ELSE /\ rpc' = Answer(d, "setconfig", PyInt(value).out)
                 /\ UNCHANGED ncpus
       ELSE /\ rpc' = Answer(d, "setconfig", "ValueError")
            /\ UNCHANGED ncpus
    /\ UNCHANGED <<dbVars, usedCpus, disp, cancelPending, txn, taskVars, histVars,
                   probe, listed>>

\* remove(job_id) of an id that is not in the table: ValueError('Job not
\* found.') inside the with block.
RemoveMissing(d, j) ==
    /\ Idle(d)
    /\ Addressed(d, "remove", JobArg(j))
    /\ j \notin DOMAIN rows
    /\ rpc' = Answer(d, "remove", "ValueError")
    /\ UNCHANGED <<dbVars, daemonVars, taskVars, histVars, probe, listed>>

\* run(job_id) of an id that is not in the table: the ValueError is built
\* and not raised, and job.started = ... on None raises AttributeError.
RunMissing(d, j) ==
    /\ Idle(d)
    /\ Addressed(d, "run", JobArg(j))
    /\ j \notin DOMAIN rows
    /\ rpc' = Answer(d, "run", "AttributeError")
    /\ UNCHANGED <<dbVars, daemonVars, taskVars, histVars, probe, listed>>

\* ------------------------------------------------------------------- lists
\* The filters of list_waiting, list_running and list_finished.
InWaitingView(r) == r.started = NoTime /\ r.finished = NoTime

\* filter(Job.started != None): rows that have finished are listed as well.
InRunningView_StartedOnly(r) == r.started # NoTime

InRunningView(r) == r.started # NoTime /\ r.finished = NoTime
InFinishedView(r) == r.started # NoTime /\ r.finished # NoTime

\* order_by(Job.finished.desc()).limit(limit): every choice of at most limit
\* rows such that no row left out finished later than a row taken (rows of
\* equal finished come in the order the database likes).
FinishedPage(limit) ==
    LET all == {j \in DOMAIN rows : InFinishedView(rows[j])}
        size == IF Cardinality(all) < limit THEN Cardinality(all) ELSE limit
    IN  {S \in SUBSET all :
            /\ Cardinality(S) = size
            /\ \A a \in S, b \in all \ S : rows[a].finished >= rows[b].finished}

\* The ids of the rows a view returns (_list keeps the order of the query;
\* here only which rows are returned).
ViewResults(view, limit) ==
    IF view = "list_waiting" THEN {{j \in DOMAIN rows : InWaitingView(rows[j])}}
    ELSE IF view = "list_running" THEN {{j \in DOMAIN rows : InRunningView(rows[j])}}
    ELSE FinishedPage(limit)

Views == {"list_waiting", "list_running", "list_finished"}

\* limit of list_finished: the default and a smaller page
ListLimits == {1, 5}

\* list_waiting(), list_running(), list_finished(limit) on daemon d.  call
\* is the parity of the number of calls, so that two calls are told apart.
List(d, view, limit) ==
    /\ Idle(d)
    /\ \E ids \in ViewResults(view, limit) :
          listed' = [view |-> view, limit |-> limit, ids |-> ids,
                     call |-> 1 - listed.call]
    /\ rpc' = Answer(d, view, "return")
    /\ UNCHANGED <<dbVars, daemonVars, taskVars, histVars, probe>>

\* ---------------------------------------------------------- specifications
\* A script header as parse_pbs_header returns it.
PlainHeader ==
    [name |-> "t", ncpus |-> 3, priority |-> 0, nodes |-> Null,
     send_mail |-> NoMail, email |-> FALSE, slack |-> FALSE]

Dispatch(d) ==
    \/ WarmupDone(d)
    \/ BackoffDone(d)
    \/ Tick(d)
    \/ StartJobCommit(d)

Supervise(i, rcs) ==
    \/ SupStart(i)
    \/ SupRegister(i)
    \/ \E rc \in rcs : ChildExit(i, rc)
    \/ SupFinish(i)

\* The cluster: two daemons on one database, every RPC that starts or
\* removes jobs.
Headers == {PlainHeader}

Next ==
    \/ \E d \in Daemons, h \in Headers : Submit(d, h)
    \/ \E d \in Daemons : Dispatch(d)
    \/ \E i \in 1 .. MaxSups : Supervise(i, {0})
    \/ \E i \in 1 .. MaxSups : SupStartGone(i)
    \/ \E d \in Daemons, j \in JobIds : Remove(d, j)
    \/ \E d \in Daemons, j \in JobIds : RunRead(d, j)
    \/ \E d \in Daemons : RunCommit(d)

Spec == Init /\ [][Next]_vars

\* Dispatchers racing for the same rows: no RPC but submit.
NextRace ==
    \/ \E d \in Daemons, h \in Headers : Submit(d, h)
    \/ \E d \in Daemons : Dispatch(d)
    \/ \E i \in 1 .. MaxSups : Supervise(i, {0})

SpecRace == Init /\ [][NextRace]_vars

\* Dispatchers and remove only (no run RPC, no setconfig), jobs of several
\* sizes.
HeadersDispatch == {[PlainHeader EXCEPT !.ncpus = n] : n \in {-2, 3, 6}}

NextDispatch ==
    \/ \E d \in Daemons, h \in HeadersDispatch : Submit(d, h)
    \/ \E d \in Daemons : Dispatch(d)
    \/ \E i \in 1 .. MaxSups : Supervise(i, {0})
    \/ \E i \in 1 .. MaxSups : SupStartGone(i)
    \/ \E d \in Daemons, j \in JobIds : Remove(d, j)

SpecDispatch == Init /\ [][NextDispatch]_vars

\* Priorities and submission times: the clock runs, jobs are submitted to
\* and dispatched by one daemon, one at a time (ncpus 3 of 4).
HeadersOrder == {[PlainHeader EXCEPT !.priority = p] : p \in {0, 5}}

NextOrder ==
    \/ AdvanceClock
    \/ \E h \in HeadersOrder : Submit("d1", h)
    \/ Dispatch("d1")
    \/ \E i \in 1 .. MaxSups : Supervise(i, {0})

SpecOrder == Init /\ [][NextOrder]_vars

\* Notifications: every mode, transport and return code.
HeadersNotify ==
    {[PlainHeader EXCEPT !.ncpus = 1, !.send_mail = m, !.email = t = "email",
                         !.slack = t = "slack"] :
        m \in {NoMail, {"e"}, {"a", "e"}}, t \in {"email", "slack", "none"}}

NextNotify ==
    \/ \E d \in Daemons, h \in HeadersNotify : Submit(d, h)
    \/ \E d \in Daemons : Dispatch(d)
    \/ \E i \in 1 .. MaxSups : Supervise(i, {0, 1})

SpecNotify == Init /\ [][NextNotify]_vars

\* Shutdown: close() at any point of the dispatcher loop.
NextShutdown ==
    \/ \E d \in Daemons, h \in Headers : Submit(d, h)
    \/ \E d \in Daemons : Dispatch(d)
    \/ \E d \in Daemons : Close(d)
    \/ \E d \in Daemons : CancelDelivered(d)
    \/ \E i \in 1 .. MaxSups : Supervise(i, {0})

SpecShutdown == Init /\ [][NextShutdown]_vars

\* Forced starts: one daemon with its dispatcher and the run RPC, the clock
\* running.
NextRun ==
    \/ AdvanceClock
    \/ \E h \in Headers : Submit("d1", h)
    \/ Dispatch("d1")
    \/ \E i \in 1 .. MaxSups : Supervise(i, {0})
    \/ \E j \in JobIds : RunRead("d1", j)
    \/ RunCommit("d1")

SpecRun == Init /\ [][NextRun]_vars

\* Database errors at commit, on one daemon with its dispatcher and the run
\* RPC.
NextFaults ==
    \/ \E h \in Headers : Submit("d1", h)
    \/ Dispatch("d1")
    \/ StartJobCommitFails("d1")
    \/ \E i \in 1 .. MaxSups : Supervise(i, {0})
    \/ \E j \in JobIds : RunRead("d1", j)
    \/ RunCommit("d1")
    \/ RunCommitFails("d1")

SpecFaults == Init /\ [][NextFaults]_vars

\* Lists: jobs of one CPU submitted to and run by d1, the three views asked
\* of either daemon.
HeadersList == {[PlainHeader EXCEPT !.ncpus = 1]}

NextList ==
    \/ AdvanceClock
    \/ \E h \in HeadersList : Submit("d1", h)
    \/ Dispatch("d1")
    \/ \E i \in 1 .. MaxSups : Supervise(i, {0})
    \/ \E d \in Daemons, v \in Views, l \in ListLimits :
          List(d, v, IF v = "list_finished" THEN l ELSE 0)

SpecList == Init /\ [][NextList]_vars

\* Submission of every script within the bounds, over the RPC server.
PbsLines ==
    {PbsLine("N", <<"t">>), PbsLine("N", <<"">>),
     PbsLine("l", <<"ncpus", "3">>), PbsLine("l", <<"ncpus", "0">>),
     PbsLine("l", <<"ncpus", "-2">>), PbsLine("l", <<"walltime">>),
     PbsLine("p", <<"5">>), PbsLine("p", <<"high">>)}

Scripts ==
    {NoScript}
        \cup {[exists |-> TRUE, lines |-> l] : l \in SeqsUpTo(PbsLines, MaxLines)}

NextSubmit ==
    \/ \E d \in Daemons, id \in RpcIds, f \in Scripts : Request(d, id, "submit", ScriptArg(f))
    \/ \E d \in Daemons, f \in Scripts : SubmitFile(d, f)

SpecSubmit == Init /\ [][NextSubmit]_vars

\* The RPC server in front of one daemon: requests for methods that exist
\* and for one that does not, for job ids in the table and not in it.
RpcScripts ==
    {NoScript,
     [exists |-> TRUE, lines |-> <<PbsLine("N", <<"t">>), PbsLine("l", <<"ncpus", "3">>)>>]}

RpcRequests ==
    {[method |-> "submit", arg |-> ScriptArg(f)] : f \in RpcScripts}
        \cup {[method |-> m, arg |-> JobArg(j)] : m \in {"remove", "run"}, j \in JobIds}
        \cup {[method |-> m, arg |-> NoArg] : m \in {"list_waiting", "frobnicate"}}

NextRpc ==
    \/ \E id \in RpcIds, r \in RpcRequests : Request("d1", id, r.method, r.arg)
    \/ UnknownMethod("d1")
    \/ \E f \in RpcScripts : SubmitFile("d1", f)
    \/ \E j \in JobIds : Remove("d1", j)
    \/ \E j \in JobIds : RemoveMissing("d1", j)
    \/ \E j \in JobIds : RunRead("d1", j)
    \/ RunCommit("d1")
    \/ \E j \in JobIds : RunMissing("d1", j)
    \/ List("d1", "list_waiting", 0)
    \/ \E i \in 1 .. MaxSups : Supervise(i, {0})
    \/ \E i \in 1 .. MaxSups : SupStartGone(i)

SpecRpc == Init /\ [][NextRpc]_vars

\* A cluster of one daemon under fair scheduling: the event loop runs every
\* task that is ready (the dispatcher after each sleep, each supervisor after
\* each await), and every child process ends.
HeadersLive ==
    {PlainHeader,
     [PlainHeader EXCEPT !.nodes = Hostname("d1")],
     [PlainHeader EXCEPT !.send_mail = {"a", "e"}, !.email = TRUE]}

NextLive ==
    \/ \E h \in HeadersLive : Submit("d1", h)
    \/ Dispatch("d1")
    \/ \E i \in 1 .. MaxSups : Supervise(i, {0, 1})

Fairness ==
    /\ WF_vars(Dispatch("d1"))
    /\ \A i \in 1 .. MaxSups :
          /\ WF_vars(SupStart(i))
          /\ WF_vars(SupRegister(i))
          /\ WF_vars(\E rc \in {0, 1} : ChildExit(i, rc))
          /\ WF_vars(SupFinish(i))

SpecLive == Init /\ [][NextLive]_vars /\ Fairness

\* remove racing the start of the supervisor, on one daemon.
NextGone ==
    \/ \E h \in Headers : Submit("d1", h)
    \/ Dispatch("d1")
    \/ \E i \in 1 .. MaxSups : Supervise(i, {0})
    \/ \E i \in 1 .. MaxSups : SupStartGone(i)
    \/ \E j \in JobIds : Remove("d1", j)

SpecGone == Init /\ [][NextGone]_vars

\* Every kind of mode string with every choice of transport keys, on the
\* daemon that has a Slack notifier.
HeadersMode ==
    {[PlainHeader EXCEPT !.ncpus = 3, !.send_mail = m, !.email = t \in {"email", "both"},
                         !.slack = t \in {"slack", "both"}] :
        m \in {NoMail, {"n"}, {"a"}, {"e"}, {"a", "e"}},
        t \in {"email", "slack", "both", "none"}}

NextMode ==
    \/ \E h \in HeadersMode : Submit("d2", h)
    \/ Dispatch("d2")
    \/ \E i \in 1 .. MaxSups : Supervise(i, {0, 1})

SpecMode == Init /\ [][NextMode]_vars

\* setconfig over RPC on one daemon with its dispatcher: jobs of 3 and of 6
\* CPUs, string, number and null values.
HeadersConfig == {[PlainHeader EXCEPT !.ncpus = n] : n \in {3, 6}}

ConfigKeys == {"ncpus", "root_dir"}

ConfigValues ==
    {[json |-> "string", text |-> "6", frac |-> ""],
     [json |-> "string", text |-> "1", frac |-> ""],
     [json |-> "string", text |-> "x", frac |-> ""],
     [json |-> "string", text |-> "6", frac |-> "5"],
     [json |-> "number", text |-> "6", frac |-> ""],
     [json |-> "number", text |-> "1", frac |-> "5"],
     NoValue}

NextConfig ==
    \/ \E h \in HeadersConfig : Submit("d1", h)
    \/ Dispatch("d1")
    \/ \E i \in 1 .. MaxSups : Supervise(i, {0})
    \/ \E id \in RpcIds, k \in ConfigKeys, v \in ConfigValues :
          Request("d1", id, "setconfig", ConfigArg(k, v))
    \/ \E k \in ConfigKeys, v \in ConfigValues : SetConfig("d1", k, v)

SpecConfig == Init /\ [][NextConfig]_vars

\* Database errors in the ticks of one dispatcher.
NextTickFaults ==
    \/ \E h \in Headers : Submit("d1", h)
    \/ Dispatch("d1")
    \/ TickQueryFails("d1")
    \/ StartJobCommitFails("d1")
    \/ \E i \in 1 .. MaxSups : Supervise(i, {0})

SpecTickFaults == Init /\ [][NextTickFaults]_vars

\* The affinity matcher alone, on every node name and every nodes list
\* within the bounds.
HostChars == {"n", "1", "0", "_"}
ListChars == {"n", "1", "0", ","}
HostNames == {h \in SeqsUpTo(HostChars, MaxHostLen) : h # <<>> /\ Head(h) = "n"}
NodeLists == SeqsUpTo(ListChars, MaxListLen) \cup {Null}

InitAffinity ==
    /\ Init!1 /\ Init!2 /\ Init!3 /\ Init!4 /\ Init!5 /\ Init!6 /\ Init!7
    /\ Init!8 /\ Init!9 /\ Init!10 /\ Init!11 /\ Init!12 /\ Init!13 /\ Init!14
    /\ Init!15 /\ Init!16 /\ Init!17 /\ Init!18 /\ Init!20 /\ Init!21
    /\ Init!22
    /\ \E h \in HostNames, L \in NodeLists :
          probe = [host |-> h, nodes |-> L, result |-> FALSE, done |-> FALSE]

ApplyNodesMatch ==
    /\ ~probe.done
    /\ probe' = [probe EXCEPT !.result = NodesMatch(probe.host, probe.nodes),
                              !.done = TRUE]
    /\ UNCHANGED <<dbVars, daemonVars, taskVars, histVars, ioVars>>

SpecAffinity == InitAffinity /\ [][ApplyNodesMatch]_vars

\* ------------------------------------------------------------------ claims
SupIds == 1 .. Len(sups)
SupsOf(j) == {i \in SupIds : sups[i].job = j}

\* C1: when several dispatchers go for the same WAITING row, at most one of
\* them holds its lock, exactly one commits the claim and launches the one
\* supervisor of the job, and no other dispatcher ever claims it.
C1_OneClaimPerRow ==
    \A j \in JobIds :
        /\ Cardinality(claimedBy[j]) <= 1
        /\ Cardinality(LockHolders(j)) <= 1
        /\ Cardinality(SupsOf(j)) = Cardinality(claimedBy[j])
        /\ LockHolders(j) # {} => j \in DOMAIN rows /\ Waiting(rows[j]) /\ claimedBy[j] = {}

\* d1 claimed a job both daemons were eligible for, and a later tick of d2
\* found nothing to start.
C1_Witness ==
    \E j \in DOMAIN rows :
        /\ files[j].nodes = Null
        /\ claimedBy[j] = {"d1"}
        /\ j \in lost["d2"]
        /\ disp["d2"] = "backoff"

\* C2: for every job id at most one commit stamps started on a row its
\* transaction read as WAITING, whether the commit is a dispatcher's claim or
\* a forced start through run.
C2_AtMostOneStart == \A j \in JobIds : startCommits[j] <= 1

\* C3: with dispatchers only and a fixed capacity, the ncpus of the RUNNING
\* rows a node has claimed never add up to more than the node's capacity.
C3_CapacityBound ==
    \A d \in Daemons :
        SumNcpus({j \in DOMAIN rows : Running(rows[j]) /\ d \in claimedBy[j]}) <= ncpus[d]

\* C4: the affinity filter lets node h take a job with nodes list L only if
\* L is absent or h is one of the comma-separated members of L.
C4_AffinityExact ==
    (probe.done /\ probe.result) =>
        (probe.nodes = Null \/ probe.host \in Members(probe.nodes))

\* C5 as stated: the row a dispatcher's query returns is, among the rows
\* eligible for the node at that moment, the one of highest priority, then
\* earliest submitted, then smallest id.
C5_BestById(d, j) ==
    LET cands == Candidates(d, ncpus[d] - GetUsedCpus(d))
    IN  /\ j \in cands
        /\ \A k \in cands \ {j} :
              \/ rows[k].priority < rows[j].priority
              \/ rows[k].priority = rows[j].priority
                 /\ rows[k].submitted > rows[j].submitted
              \/ rows[k].priority = rows[j].priority
                 /\ rows[k].submitted = rows[j].submitted
                 /\ k > j

C5_ClaimOrder ==
    [][\A d \in Daemons :
          (txn[d].kind # "claim" /\ txn'[d].kind = "claim") => C5_BestById(d, txn'[d].job)]_vars

\* C5 as amended: the row a dispatcher's query returns is eligible, no
\* eligible row has a higher priority, and no eligible row of the same
\* priority was submitted earlier (which of several rows equal in both is
\* returned is left open).
C5_BestOfEligible(d, j) ==
    LET cands == Candidates(d, ncpus[d] - GetUsedCpus(d))
    IN  /\ j \in cands
        /\ \A k \in cands :
              /\ rows[k].priority <= rows[j].priority
              /\ rows[k].priority = rows[j].priority
                    => rows[k].submitted >= rows[j].submitted

C5_ClaimOrderAmended ==
    [][\A d \in Daemons :
          (txn[d].kind # "claim" /\ txn'[d].kind = "claim")
              => C5_BestOfEligible(d, txn'[d].job)]_vars

\* A dispatcher holds the claim on a job of higher priority while a job
\* submitted earlier, of lower priority, is waiting and eligible too.
C5_Witness ==
    \E d \in Daemons : \E j, k \in DOMAIN rows :
        /\ txn[d].kind = "claim" /\ txn[d].job = j
        /\ k \in Candidates(d, ncpus[d] - GetUsedCpus(d))
        /\ rows[k].priority < rows[j].priority
        /\ rows[k].submitted < rows[j].submitted

\* C6: once remove(job_id) has returned on a daemon, the row is gone and no
\* child process of that job is alive on that daemon, then or later, also
\* when remove came while the supervisor was still spawning the child.
C6_RemoveLeavesNoChild ==
    \A j \in JobIds :
        removedVia[j] # NoDaemon =>
            /\ j \notin DOMAIN rows
            /\ \A i \in SupsOf(j) : sups[i].d = removedVia[j] => sups[i].child # "alive"

\* C7: a child that its owning daemon had registered and that was alive
\* when remove(job_id) was issued, through whichever daemon, is killed.
C7_RemoveKillsOwnersChild ==
    \A j \in JobIds : \A i \in liveAtRemove[j] : sups[i].child # "alive"

\* C8: a supervisor whose spawn failed has, when it is done, stamped
\* finished on its row, whatever the script's header holds.
C8_SpawnFailureFinishes ==
    \A i \in SupIds :
        (sups[i].pc = "done" /\ sups[i].spawnFailed /\ sups[i].job \in DOMAIN rows)
            => rows[sups[i].job].finished # NoTime

\* The header asks for a message for this return code, over some transport.
NotificationDue(h, rc) ==
    /\ h.send_mail # NoMail
    /\ ("e" \in h.send_mail /\ rc = 0) \/ ("a" \in h.send_mail /\ rc # 0)
    /\ h.email \/ h.slack

\* C9: a supervisor whose job ran and asked for a notification has, when it
\* is done, stamped finished on its row, whether or not the notifier exists
\* and its send works.
C9_NotifierFailureSwallowed ==
    \A i \in SupIds :
        (/\ sups[i].pc = "done"
         /\ ~sups[i].spawnFailed
         /\ sups[i].job \in DOMAIN rows
         /\ sups[i].child \in {"exited", "killed"}
         /\ NotificationDue(files[sups[i].job], sups[i].rc))
            => rows[sups[i].job].finished # NoTime

\* C10: after close() the dispatcher runs no further tick (and so commits no
\* further claim), wherever in its loop the cancellation reached it.
C10_NoTickAfterClose == \A d \in Daemons : ~tickedAfterClose[d]

\* C11: for every row, submitted <= started whenever started is set, and
\* started <= finished whenever finished is set, under submit, dispatch,
\* run, supervisor finish and one monotone clock.
C11_MonotoneTimestamps ==
    \A j \in DOMAIN rows :
        /\ rows[j].started # NoTime => rows[j].submitted <= rows[j].started
        /\ (rows[j].started # NoTime /\ rows[j].finished # NoTime)
              => rows[j].started <= rows[j].finished

\* C12: every committed row whose started is set has a node field that is
\* not absent.
C12_StartedHasNode ==
    \A j \in DOMAIN rows : rows[j].started # NoTime => rows[j].node # Null

\* C13: no committed row has finished set while started is absent, also
\* when the transaction that stamps started fails to commit.
C13_NoFinishWithoutStart ==
    \A j \in DOMAIN rows : rows[j].started = NoTime => rows[j].finished = NoTime

\* C14 as stated: every list_* call shows every row that submit has returned
\* and that is still in the table in the list that matches its state.
C14_ListedByState ==
    [][listed' # listed =>
          \A j \in DOMAIN rows :
              /\ (listed'.view = "list_waiting" /\ Waiting(rows[j])) => j \in listed'.ids
              /\ (listed'.view = "list_running" /\ Running(rows[j])) => j \in listed'.ids
              /\ (listed'.view = "list_finished" /\ Finished(rows[j]))
                    => j \in listed'.ids]_vars

\* C14 as amended: list_waiting returns exactly the WAITING rows,
\* list_running exactly the RUNNING rows, and list_finished(limit) returns
\* FINISHED rows only, all of them when there are at most limit, and
\* otherwise limit of them none of which finished before a row left out.
C14_ListedByStateAmended ==
    [][listed' # listed =>
          LET ids == listed'.ids
              fin == {j \in DOMAIN rows : Finished(rows[j])}
          IN  /\ listed'.view = "list_waiting"
                    => ids = {j \in DOMAIN rows : Waiting(rows[j])}
              /\ listed'.view = "list_running"
                    => ids = {j \in DOMAIN rows : Running(rows[j])}
              /\ listed'.view = "list_finished"
                    => /\ ids \subseteq fin
                       /\ Cardinality(fin) <= listed'.limit => ids = fin
                       /\ Cardinality(fin) > listed'.limit
                             => /\ Cardinality(ids) = listed'.limit
                                /\ \A a \in ids, b \in fin \ ids :
                                      rows[a].finished >= rows[b].finished]_vars

\* list_finished(1) has shown the job that finished last and left out the
\* one that finished before it.
C14_Witness ==
    /\ listed.view = "list_finished"
    /\ listed.limit < Cardinality(DOMAIN rows)
    /\ \E j, k \in DOMAIN rows :
          /\ Finished(rows[j]) /\ j \in listed.ids
          /\ Finished(rows[k]) /\ k \notin listed.ids
          /\ rows[k].finished < rows[j].finished

\* The script has a "#PBS -N" line and a "#PBS -l ncpus=..." line.
YieldsNameAndNcpus(f) ==
    /\ \E i \in 1 .. Len(f.lines) : f.lines[i].flag = "N"
    /\ \E i \in 1 .. Len(f.lines) :
          /\ f.lines[i].flag = "l"
          /\ f.lines[i].parts[1] = "ncpus"
          /\ Len(f.lines[i].parts) >= 2

\* C15: a submit request succeeds (result envelope, one WAITING row more)
\* iff the file exists and its header yields name and ncpus; otherwise it is
\* answered with error -32603 and the table is unchanged.
C15_SubmitAcceptance ==
    [][(rpc.phase = "received" /\ rpc.method = "submit" /\ rpc'.phase # "received") =>
          IF rpc.arg.script.exists /\ YieldsNameAndNcpus(rpc.arg.script)
          THEN /\ rpc'.reply = "result"
               /\ DOMAIN rows' = DOMAIN rows \cup {nextId}
               /\ Waiting(rows'[nextId])
          ELSE /\ rpc'.reply = "e32603"
               /\ rows' = rows]_vars

\* C16: a request whose method has run (or does not exist) has been
\* answered with one envelope that carries the request's id: error -32601
\* iff the method does not exist, and otherwise a result or error -32603.
C16_EveryRequestAnswered ==
    /\ rpc.phase # "dropped"
    /\ rpc.phase = "closed" =>
          /\ rpc.replyId = rpc.id
          /\ rpc.reply \in {"result", "e32601", "e32603"}
          /\ rpc.reply = "e32601" <=> rpc.method \notin Methods

\* C17: a remove or run request for an id that is not in the table is
\* answered with error -32603, and the table, the process registry and the
\* supervisors stay as they were.
C17_UnknownIdRejected ==
    [][(/\ rpc.phase = "received"
        /\ rpc.method \in {"remove", "run"}
        /\ rpc'.phase # "received"
        /\ rpc.arg.job \notin DOMAIN rows)
          => /\ rpc'.reply = "e32603"
             /\ rows' = rows
             /\ procs' = procs
             /\ sups' = sups]_vars

\* The jobs RUNNING on a daemon: rows started and not finished for which the
\* daemon has launched a supervisor.
RunningOn(d) ==
    {j \in DOMAIN rows : Running(rows[j]) /\ \E i \in SupsOf(j) : sups[i].d = d}

\* C18: a dispatcher takes a claim only if the ncpus of the jobs RUNNING on
\* its node, those started through run included, plus the ncpus of the row
\* it claims do not exceed the node's capacity.
C18_ForcedJobCounted ==
    [][\A d \in Daemons :
          (txn[d].kind # "claim" /\ txn'[d].kind = "claim")
              => SumNcpus(RunningOn(d)) + rows[txn'[d].job].ncpus <= ncpus[d]]_vars

\* C19: with one daemon, fair scheduling and children that end, every job in
\* the table whose ncpus is at most the capacity and whose nodes list is
\* absent or holds the node is eventually started, and once its child has
\* exited its row eventually is FINISHED (and so in list_finished).
C19_EligibleJobsFinish ==
    \A j \in JobIds :
        /\ (/\ j \in DOMAIN rows
            /\ rows[j].ncpus <= ncpus["d1"]
            /\ (rows[j].nodes = Null \/ Hostname("d1") \in Members(rows[j].nodes)))
              ~> (j \in DOMAIN rows /\ rows[j].started # NoTime)
        /\ (\E i \in SupsOf(j) : sups[i].child = "exited")
              ~> (j \in DOMAIN rows /\ InFinishedView(rows[j]))

\* C20: every row in the table has ncpus >= 1 and a name that is not empty.
C20_RowsWellFormed ==
    \A j \in DOMAIN rows : rows[j].ncpus >= 1 /\ rows[j].name # ""

\* C21: a dispatcher's claim commit leaves every other row as it was and, in
\* the claimed row, changes nothing but started and node: nodes, name, ncpus,
\* priority, submitted and finished keep their values.
C21_ClaimFrame ==
    [][\A d \in Daemons :
          (txn[d].kind = "claim" /\ txn'[d].kind = "none" /\ Len(sups') > Len(sups))
              => /\ DOMAIN rows' = DOMAIN rows
                 /\ \A k \in DOMAIN rows :
                       IF k = txn[d].job
                       THEN /\ rows'[k].nodes = rows[k].nodes
                            /\ rows'[k].name = rows[k].name
                            /\ rows'[k].ncpus = rows[k].ncpus
                            /\ rows'[k].priority = rows[k].priority
                            /\ rows'[k].submitted = rows[k].submitted
                            /\ rows'[k].finished = rows[k].finished
                       ELSE rows'[k] = rows[k]]_vars

\* C22: a tick that meets a database error, in a query or in the flush or
\* commit of the claim, writes no row (its candidate stays WAITING as it was),
\* launches no supervisor, holds no lock afterwards, and leaves the
\* dispatcher in its loop, ready for the next tick.
C22_TickErrorHarmless ==
    [][\A d \in Daemons :
          Len(tickErrors'[d]) > Len(tickErrors[d])
              => /\ rows' = rows
                 /\ sups' = sups
                 /\ procs' = procs
                 /\ txn'[d] = NoTxn
                 /\ disp'[d] = "tick"
                 /\ LET j == tickErrors'[d][Len(tickErrors'[d])]
                    IN  j # 0 => j \in DOMAIN rows' /\ Waiting(rows'[j])]_vars

\* The commit of d1's claim on a job failed, and a later tick of d1 claimed
\* the same job.
C22_Witness ==
    \E j \in DOMAIN rows :
        /\ \E n \in 1 .. Len(tickErrors["d1"]) : tickErrors["d1"][n] = j
        /\ claimedBy[j] = {"d1"}
        /\ Running(rows[j])

\* C23: a supervisor that finds its row gone when it reads it ends there: it
\* has no child, no registry gains an entry and the table is not written.
C23_GoneRowNoRun ==
    [][\A i \in 1 .. Len(sups) :
          (sups[i].pc = "ready" /\ sups[i].job \notin DOMAIN rows /\ sups'[i] # sups[i])
              => /\ sups'[i].pc = "done"
                 /\ sups'[i].child = "none"
                 /\ rows' = rows
                 /\ \A d \in Daemons : DOMAIN procs'[d] \subseteq DOMAIN procs[d]]_vars

\* A job was claimed, removed before its supervisor read the row, and the
\* supervisor is done without a child.
C23_Witness ==
    \E i \in SupIds :
        /\ sups[i].pc = "done" /\ sups[i].child = "none" /\ ~sups[i].spawnFailed
        /\ sups[i].job \notin DOMAIN rows
        /\ claimedBy[sups[i].job] = {sups[i].d}
        /\ removedVia[sups[i].job] # NoDaemon

\* C24: no daemon's process registry holds the id of a job whose row is
\* FINISHED.
C24_NoFinishedInRegistry ==
    \A d \in Daemons : \A j \in DOMAIN procs[d] :
        j \in DOMAIN rows => ~Finished(rows[j])

\* The mode of the header asks for a message for return code rc.
ModeAsks(h, rc) ==
    /\ h.send_mail # NoMail
    /\ ("e" \in h.send_mail /\ rc = 0) \/ ("a" \in h.send_mail /\ rc # 0)

IsInteger(v) == v.json \in {"string", "number"} /\ v.text \in IntTexts /\ v.frac = ""

\* C26: a setconfig request with key 'ncpus' and an integer v is answered
\* with a result and config() and get_cpus() then give v; with another key
\* or a value that is not an integer it is answered with error -32603 and
\* both give what they gave before; and a tick claims a job only if it fits
\* into the capacity that config() gives at that tick.
C26_SetConfig ==
    [][\A d \in Daemons :
          /\ (rpc.phase = "received" /\ rpc.d = d /\ rpc.method = "setconfig" /\ rpc' # rpc)
                => IF rpc.arg.key = "ncpus" /\ IsInteger(rpc.arg.value)
                   THEN /\ rpc'.reply = "result"
                        /\ Config(d)'.ncpus = IntOf(rpc.arg.value.text)
                        /\ GetCpus(d)'[2] = IntOf(rpc.arg.value.text)
                   ELSE /\ rpc'.reply = "e32603"
                        /\ Config(d)' = Config(d)
                        /\ GetCpus(d)' = GetCpus(d)
          /\ (txn[d].kind = "none" /\ txn'[d].kind = "claim")
                => rows[txn'[d].job].ncpus <= Config(d).ncpus - GetCpus(d)'[1]]_vars

\* The part of C26 for values that are strings, as the signature of
\* setconfig declares them.
C26_SetConfigStrings ==
    [][\A d \in Daemons :
          (/\ rpc.phase = "received" /\ rpc.d = d /\ rpc.method = "setconfig" /\ rpc' # rpc
           /\ rpc.arg.value.json = "string")
                => IF rpc.arg.key = "ncpus" /\ IsInteger(rpc.arg.value)
                   THEN /\ rpc'.reply = "result"
                        /\ Config(d)'.ncpus = IntOf(rpc.arg.value.text)
                        /\ GetCpus(d)'[2] = IntOf(rpc.arg.value.text)
                   ELSE /\ rpc'.reply = "e32603"
                        /\ Config(d)' = Config(d)
                        /\ GetCpus(d)' = GetCpus(d)]_vars

\* The capacity was raised to 6 and a job of 6 CPUs is running.
C26_RaisedCapacityUsed ==
    /\ Config("d1").ncpus = 6
    /\ \E j \in DOMAIN rows : rows[j].ncpus = 6 /\ Running(rows[j]) /\ claimedBy[j] = {"d1"}

\* C27: for every job id at most one child process is alive in the cluster,
\* and no step changes or deletes a registry entry that names a supervisor
\* whose child is alive.
C27_OneLiveChildPerJob ==
    [][/\ \A j \in JobIds :
             Cardinality({i \in 1 .. Len(sups') :
                            sups'[i].job = j /\ sups'[i].child = "alive"}) <= 1
       /\ \A d \in Daemons : \A j \in DOMAIN procs[d] :
             sups[procs[d][j]].child = "alive"
                 => j \in DOMAIN procs'[d] /\ procs'[d][j] = procs[d][j]]_vars

====
